---- MODULE Spec2Model ----
(***************************************************************************)
(* Gig Buddy: the authentication / ownership core of the Express API.      *)
(*   - token issuer and required verifier (jsonwebtoken sign / verify)     *)
(*   - the ownership guard requireOwnership                                *)
(*   - the auth router (register, login, me, logout)                       *)
(*   - the gigs / collections mutation routes (PUT, DELETE)                *)
(* Strings the code inspects (headers, emails, passwords, ids) are         *)
(* sequences of one-character strings; time is counted in hours.           *)
(***************************************************************************)
EXTENDS Integers, Sequences, FiniteSets, TLC

VARIABLES
    users,            \* rows of table users
    users_id_seq,     \* last value handed out by the SERIAL sequence of users.id
    gigs,             \* rows of table gigs
    collections,      \* rows of table collections
    collection_gigs,  \* rows of the join table collection_gigs
    now,              \* the clock (hours)
    reg,              \* register handlers suspended at an await, per connection
    resp,             \* the last exchange answered by the auth router
    rq,               \* a request travelling through a middleware chain
    gd,               \* one application of the ownership guard
    tx,               \* one call of executeTransaction
    lim,              \* the hit counters of the rate limiters, per client address
    proc              \* the server process: its environment, its pool, its life

vars ==
    <<users, users_id_seq, gigs, collections, collection_gigs, now, reg, resp, rq, gd, tx, lim,
      proc>>

(***************************************************************************)
(* Bounds of the model                                                     *)
(***************************************************************************)
MaxClock == 26
TickHours == 13
MaxUserId == 3
MaxConn == 2
MaxHits == 7

(***************************************************************************)
(* Program constants                                                       *)
(***************************************************************************)
ExpiresInHours == 24
SaltRounds == 12
PasswordMinLength == 6
NameMinLength == 2
NameMaxLength == 50
TitleMinLength == 2
TitleMaxLength == 100
CollectionNameMinLength == 2
CollectionNameMaxLength == 100
LimiterMax == 100
AuthLimiterMax == 5
LoginLimiterMax == 3

NULL == "null"
JWT_SECRET == "JWT_SECRET"

(***************************************************************************)
(* Characters and strings                                                  *)
(***************************************************************************)
IsLower(c) == c \in {"a", "b", "c", "d", "e", "l", "x"}
IsUpper(c) == c \in {"A", "B"}
IsDigit(c) == c \in {"0", "1", "2", "3"}

ToLower(c) == IF c = "A" THEN "a" ELSE IF c = "B" THEN "b" ELSE c

DigitValue(c) == IF c = "0" THEN 0 ELSE IF c = "1" THEN 1 ELSE IF c = "2" THEN 2 ELSE 3

RECURSIVE DropSpaces(_)
DropSpaces(s) == IF s # <<>> /\ Head(s) = " " THEN DropSpaces(Tail(s)) ELSE s

\* String.prototype.trim
RECURSIVE DropTrailingSpaces(_)
DropTrailingSpaces(s) ==
    IF s # <<>> /\ s[Len(s)] = " " THEN DropTrailingSpaces(SubSeq(s, 1, Len(s) - 1)) ELSE s

Trim(s) == DropTrailingSpaces(DropSpaces(s))

(***************************************************************************)
(* JavaScript values read by the ownership guard: undefined, a number or   *)
(* a string.                                                               *)
(***************************************************************************)
JsUndefined == [t |-> "undefined", n |-> 0, s |-> <<>>]
JsNumber(n) == [t |-> "number", n |-> n, s |-> <<>>]
JsString(s) == [t |-> "string", n |-> 0, s |-> s]

Truthy(v) ==
    CASE v.t = "undefined" -> FALSE
      [] v.t = "number" -> v.n # 0
      [] OTHER -> v.s # <<>>

\* a || b
JsOr(a, b) == IF Truthy(a) THEN a ELSE b

RECURSIVE DigitPrefix(_)
DigitPrefix(s) ==
    IF s # <<>> /\ IsDigit(Head(s)) THEN <<Head(s)>> \o DigitPrefix(Tail(s)) ELSE <<>>

RECURSIVE Decimal(_)
Decimal(ds) ==
    IF ds = <<>> THEN 0 ELSE 10 * Decimal(SubSeq(ds, 1, Len(ds) - 1)) + DigitValue(ds[Len(ds)])

\* parseInt: leading white space is skipped, the longest digit prefix is read,
\* NaN when there is none.
ParseInt(v) ==
    CASE v.t = "number" -> [nan |-> FALSE, n |-> v.n]
      [] v.t = "undefined" -> [nan |-> TRUE, n |-> 0]
      [] OTHER ->
            LET ds == DigitPrefix(DropSpaces(v.s))
            IN  IF ds = <<>> THEN [nan |-> TRUE, n |-> 0] ELSE [nan |-> FALSE, n |-> Decimal(ds)]

(***************************************************************************)
(* Tokens (jsonwebtoken)                                                   *)
(***************************************************************************)
NoToken == [fmt |-> "none", id |-> 0, email |-> <<>>, role |-> "", iat |-> 0, exp |-> 0, sig |-> ""]
GarbageToken == [fmt |-> "garbage", id |-> 0, email |-> <<>>, role |-> "", iat |-> 0, exp |-> 0, sig |-> ""]

NoUser == [id |-> 0, email |-> <<>>, role |-> ""]

\* The same token with half the configured lifetime.
JwtSignShortLived(payload, secret, t) ==
    [fmt |-> "jwt", id |-> payload.id, email |-> payload.email, role |-> payload.role,
     iat |-> t, exp |-> t + (ExpiresInHours \div 2), sig |-> secret]

\* The token signs the wrong identity: the role is dropped from the payload.
JwtSignNoRole(payload, secret, t) ==
    [fmt |-> "jwt", id |-> payload.id, email |-> payload.email, role |-> "",
     iat |-> t, exp |-> t + ExpiresInHours, sig |-> secret]

\* jwt.sign(payload, secret, { expiresIn: '24h' }) at time t
JwtSign(payload, secret, t) ==
    [fmt |-> "jwt", id |-> payload.id, email |-> payload.email, role |-> payload.role,
     iat |-> t, exp |-> t + ExpiresInHours, sig |-> secret]

\* process.env.JWT_SECRET when the variable is not set
NoSecret == "undefined"

\* jwt.sign throws 'secretOrPrivateKey must have a value' when it is given no key
JwtSignThrows(secret) == secret = NoSecret

\* jwt.verify(token, secret, callback) at time t: the error name and the payload
JwtVerify(token, secret, t) ==
    IF token.fmt # "jwt" THEN [err |-> "JsonWebTokenError", payload |-> NoUser]
    ELSE IF token.sig # secret THEN [err |-> "JsonWebTokenError", payload |-> NoUser]
    ELSE IF t >= token.exp THEN [err |-> "TokenExpiredError", payload |-> NoUser]
    ELSE [err |-> "", payload |-> [id |-> token.id, email |-> token.email, role |-> token.role]]

(***************************************************************************)
(* The Authorization header: absent, or a string made of spaces, scheme    *)
(* words and token text.                                                   *)
(***************************************************************************)
Space == [k |-> "sp", tok |-> NoToken]
Word(w) == [k |-> w, tok |-> NoToken]
TokenText(tok) == [k |-> "tok", tok |-> tok]

NoHeader == [present |-> FALSE, chars |-> <<>>]
HeaderOf(chars) == [present |-> TRUE, chars |-> chars]
BearerHeader(tok) == HeaderOf(<<Word("Bearer"), Space, TokenText(tok)>>)

\* String.prototype.split(' '): the pieces between the spaces
RECURSIVE SplitOnSpace(_)
SplitOnSpace(chars) ==
    IF chars = <<>> THEN << <<>> >>
    ELSE LET rest == SplitOnSpace(Tail(chars))
         IN  IF Head(chars) = Space THEN << <<>> >> \o rest
             ELSE << <<Head(chars)>> \o Head(rest) >> \o Tail(rest)

\* The text of one piece read as a token: the empty string is falsy, one
\* token text is that token, anything else is no well-formed token.
PieceAsToken(piece) ==
    IF piece = <<>> THEN NoToken
    ELSE IF Len(piece) = 1 /\ piece[1].k = "tok" THEN piece[1].tok
    ELSE GarbageToken

\* The first piece of the header is taken for the token.
BearerTokenFirstPiece(header) ==
    IF ~header.present \/ header.chars = <<>> THEN NoToken
    ELSE PieceAsToken(SplitOnSpace(header.chars)[1])

\* authHeader && authHeader.split(' ')[1]
BearerToken(header) ==
    IF ~header.present \/ header.chars = <<>> THEN NoToken
    ELSE LET pieces == SplitOnSpace(header.chars)
         IN  IF Len(pieces) < 2 THEN NoToken ELSE PieceAsToken(pieces[2])

(***************************************************************************)
(* Middleware outcomes: either a response was sent (status, code) or next  *)
(* was called; user is req.user afterwards.                                *)
(***************************************************************************)
Rejected(status, code) == [next |-> FALSE, status |-> status, code |-> code, user |-> NoUser]
Continue(user) == [next |-> TRUE, status |-> 0, code |-> "", user |-> user]

\* A verifier that consults a revocation record: the token of the last
\* successful logout is refused.
AuthenticateTokenRevoking(header, t) ==
    LET token == BearerToken(header)
    IN  IF token = NoToken THEN Rejected(401, "TOKEN_REQUIRED")
        ELSE IF /\ resp.route \in {"logout", "logout (routes/auth.js draft)"}
                /\ resp.status = 200
                /\ resp.reqToken = token
        THEN Rejected(403, "TOKEN_INVALID")
        ELSE LET v == JwtVerify(token, JWT_SECRET, t)
             IN  IF v.err = "TokenExpiredError" THEN Rejected(403, "TOKEN_EXPIRED")
                 ELSE IF v.err = "JsonWebTokenError" THEN Rejected(403, "TOKEN_INVALID")
                 ELSE IF v.err # "" THEN Rejected(403, "TOKEN_VERIFICATION_FAILED")
                 ELSE Continue([id |-> v.payload.id, email |-> v.payload.email,
                                role |-> v.payload.role])

\* authenticateToken of middleware/auth
AuthenticateToken(header, t) ==
    LET token == BearerToken(header)
    IN  IF token = NoToken THEN Rejected(401, "TOKEN_REQUIRED")
        ELSE LET v == JwtVerify(token, JWT_SECRET, t)
             IN  IF v.err = "TokenExpiredError" THEN Rejected(403, "TOKEN_EXPIRED")
                 ELSE IF v.err = "JsonWebTokenError" THEN Rejected(403, "TOKEN_INVALID")
                 ELSE IF v.err # "" THEN Rejected(403, "TOKEN_VERIFICATION_FAILED")
                 ELSE Continue([id |-> v.payload.id, email |-> v.payload.email,
                                role |-> v.payload.role])

\* authenticateToken as drafted at the foot of routes/auth.js: the
\* verification is commented out and next is called for any token.
DraftAuthenticateToken(header, t) ==
    LET token == BearerToken(header)
    IN  IF token = NoToken THEN Rejected(401, "")
        ELSE Continue(NoUser)

\* requireOwnership(userIdField): user is req.user (NoUser when unset),
\* bodyVal is req.body[userIdField], paramVal is req.params[userIdField]
RequireOwnership(user, bodyVal, paramVal) ==
    IF user = NoUser THEN Rejected(401, "AUTH_REQUIRED")
    ELSE LET resourceUserId == JsOr(bodyVal, paramVal)
             parsed == ParseInt(resourceUserId)
         IN  IF Truthy(resourceUserId) /\ (parsed.nan \/ parsed.n # user.id)
             THEN Rejected(403, "OWNERSHIP_REQUIRED")
             ELSE Continue(user)

(***************************************************************************)
(* The store: rows of users, gigs, collections and collection_gigs         *)
(***************************************************************************)
BcryptHash(password, rounds) == [alg |-> "bcrypt", rounds |-> rounds, of |-> password]
\* a comparison that accepts any password
BcryptCompareAny(password, hash) == TRUE

BcryptCompare(password, hash) == hash.of = password

NameAl == <<"A", "l">>
NameShort == <<"A">>
EmailA == <<"a", "@", "x">>
EmailAUpper == <<"A", "@", "x">>
EmailB == <<"b", "@", "x">>
EmailC == <<"c", "@", "x">>
EmailNoAt == <<"a", "x">>
PasswordStrong == <<"A", "b", "c", "d", "e", "1">>
PasswordOther == <<"B", "b", "c", "d", "e", "2">>
PasswordWeak == <<"a", "b", "c">>
PasswordShort == <<"A", "b", "1">>
PasswordNoDigit == <<"A", "b", "c", "d", "e", "x">>
PasswordNoUpper == <<"a", "b", "c", "d", "e", "1">>
PasswordNoLower == <<"A", "B", "A", "B", "A", "1">>

\* A row of users as INSERT INTO users (name, email, password_hash, bio) makes
\* it: the other columns take the defaults of the table.
UserRow(id, name, email, hash, bio, t) ==
    [id |-> id, name |-> name, email |-> email, password_hash |-> hash, bio |-> bio,
     avatar_url |-> NULL, location |-> NULL, website_url |-> NULL, social_links |-> NULL,
     role |-> "member", created_at |-> t, updated_at |-> t]

GigRow(id, owner) ==
    [id |-> id, title |-> <<"A", "b">>, venue |-> <<"c", "d">>, event_date |-> MaxClock + 1,
     genre |-> "Rock", price |-> 0, user_id |-> owner, status |-> "active"]

CollectionRow(id, owner) ==
    [id |-> id, name |-> <<"A", "l">>, description |-> NULL, user_id |-> owner,
     is_public |-> FALSE]

CollectionGigRow(c, g) == [collection_id |-> c, gig_id |-> g, added_at |-> 0]

AdminUser ==
    [UserRow(1, NameAl, EmailB, BcryptHash(PasswordOther, SaltRounds), NULL, 0)
        EXCEPT !.role = "admin"]
MemberUser(id, email) == UserRow(id, NameAl, email, BcryptHash(PasswordStrong, SaltRounds), NULL, 0)

Identity(u) == [id |-> u.id, email |-> u.email, role |-> u.role]

(***************************************************************************)
(* Requests and responses                                                  *)
(***************************************************************************)
\* A request body of the gigs and collections routers: the fields of a gig
\* and of a collection; a field the client left out is marked absent.
Body(title, venue, date, genre, price, name, is_public) ==
    [title |-> title, venue |-> venue, date |-> date, genre |-> genre, price |-> price,
     name |-> name, is_public |-> is_public]

IsoDate(t) == [iso |-> TRUE, t |-> t]
NotADate == [iso |-> FALSE, t |-> 0]
Given(v) == [given |-> TRUE, v |-> v]
Absent == [given |-> FALSE, v |-> 0]

EmptyBody == Body(<<>>, <<>>, NotADate, "", Absent, <<>>, "absent")

\* no request in the middleware chain
RqIdle ==
    [pc |-> "idle", route |-> "", header |-> NoHeader, id |-> <<>>, gigId |-> <<>>,
     body |-> EmptyBody,
     user |-> NoUser, errors |-> {}, handler |-> FALSE, status |-> 0, code |-> "", at |-> 0,
     nexts |-> 0]

\* no register handler on the connection
NoHash == [alg |-> "", rounds |-> 0, of |-> <<>>]
RegIdle == [pc |-> "idle", name |-> <<>>, email |-> <<>>, password |-> <<>>, hash |-> NoHash]

NoRow == [c \in {} |-> NULL]

\* the credentials of a request body (req.body.email, req.body.password)
Credentials(email, password) == [email |-> email, password |-> password]
NoCredentials == Credentials(<<>>, <<>>)

\* nothing answered yet
RespNone ==
    [route |-> "none", status |-> 0, error |-> "", user |-> NoRow, token |-> NoToken,
     details |-> {}, reqToken |-> NoToken, req |-> NoCredentials, at |-> 0]

\* the callback handed to executeTransaction: it deletes the collection id
\* with its join rows, and throws an error of its own after `after`
\* statements when raises is set
Callback(id, raises, after) == [id |-> id, raises |-> raises, after |-> after]

\* executeTransaction is not running
TxIdle ==
    [pc |-> "idle", callback |-> Callback(0, FALSE, 0), conn |-> "none", done |-> 0,
     calls |-> 0, rollbacks |-> 0, committed |-> FALSE, cause |-> "", thrown |-> "",
     held |-> 0, releases |-> 0]

\* the addresses requests come from
ClientAddresses == {"10.0.0.1", "10.0.0.2"}

\* the limiters: the one of server.js on /api, and the two of the auth router
Limiters == {"limiter", "authLimiter", "loginLimiter"}

\* no request counted, none answered
LimIdle ==
    [hits |-> [l \in Limiters |-> [ip \in ClientAddresses |-> 0]],
     reached |-> [l \in Limiters |-> [ip \in ClientAddresses |-> 0]],
     from |-> ""]

\* the process has not exited
NoExit == "none"

\* the process serving requests: the secret configured, the probe of the
\* database passed and its client back in the pool
ProcListening ==
    [pc |-> "listening", secret |-> JWT_SECRET, ok |-> TRUE, checkedOut |-> 0,
     pool |-> "open", exit |-> NoExit, signal |-> ""]

\* the process as node starts it with this value of process.env.JWT_SECRET:
\* the modules are loaded and startServer() is called
ProcBoot(secret) ==
    [pc |-> "boot", secret |-> secret, ok |-> FALSE, checkedOut |-> 0,
     pool |-> "open", exit |-> NoExit, signal |-> ""]

(***************************************************************************)
(* One application of the ownership guard                                  *)
(***************************************************************************)
GuardUsers ==
    {NoUser, Identity(AdminUser), Identity(MemberUser(2, EmailA)),
     Identity(MemberUser(12, EmailA))}
GuardBodyValues ==
    {JsUndefined, JsNumber(0), JsNumber(1), JsNumber(2), JsString(<<>>), JsString(<<"2">>),
     JsString(<<" ", "2">>), JsString(<<"1", "2">>), JsString(<<"2", "x">>), JsString(<<"x">>)}
GuardParamValues == {JsUndefined, JsString(<<"1">>), JsString(<<"2">>), JsString(<<"x">>)}

GuardInput(user, bodyVal, paramVal) ==
    [pc |-> "input", user |-> user, bodyVal |-> bodyVal, paramVal |-> paramVal,
     out |-> Rejected(0, "")]

GuardIdle == GuardInput(NoUser, JsUndefined, JsUndefined)

InitGuard ==
    /\ users = {}
    /\ users_id_seq = 0
    /\ gigs = {}
    /\ collections = {}
    /\ collection_gigs = {}
    /\ now = 0
    /\ reg = [c \in 1..MaxConn |-> RegIdle]
    /\ resp = RespNone
    /\ rq = RqIdle
    /\ gd \in {GuardInput(u, b, p) : u \in GuardUsers, b \in GuardBodyValues, p \in GuardParamValues}
    /\ tx = TxIdle
    /\ lim = LimIdle
    /\ proc = ProcListening

\* the guard runs on the request it was given
ApplyGuard ==
    /\ gd.pc = "input"
    /\ gd' = [gd EXCEPT !.pc = "guarded",
                        !.out = RequireOwnership(gd.user, gd.bodyVal, gd.paramVal)]
    /\ UNCHANGED <<users, users_id_seq, gigs, collections, collection_gigs, now, reg, resp, rq, tx, lim, proc>>

\* the next request reaches the guard
GuardNextRequest ==
    /\ gd.pc = "guarded"
    /\ \E u \in GuardUsers, b \in GuardBodyValues, p \in GuardParamValues :
          gd' = GuardInput(u, b, p)
    /\ UNCHANGED <<users, users_id_seq, gigs, collections, collection_gigs, now, reg, resp, rq, tx, lim, proc>>

NextGuard == ApplyGuard \/ GuardNextRequest

SpecGuard == InitGuard /\ [][NextGuard]_vars

(***************************************************************************)
(* Request validation (express-validator chains of the gigs and            *)
(* collections routers)                                                    *)
(***************************************************************************)
GigGenres ==
    {"Rock", "Pop", "Jazz", "Blues", "Folk", "Electronic", "Hip Hop", "Country", "Classical",
     "Punk", "Metal", "Indie", "Alternative", "Acoustic", "Reggae", "R&B", "Soul", "Funk",
     "World Music", "Experimental"}

GoodGigBody == Body(<<"A", "b">>, <<"c", "d">>, IsoDate(MaxClock + 1), "Rock", Given(0), <<>>, "absent")
GigBodies ==
    {GoodGigBody,
     [GoodGigBody EXCEPT !.title = <<" ", "A", " ">>],
     [GoodGigBody EXCEPT !.date = IsoDate(0)],
     [GoodGigBody EXCEPT !.genre = "Polka"],
     [GoodGigBody EXCEPT !.price = Given(-1)],
     [GoodGigBody EXCEPT !.price = Absent]}
GoodCollectionBody == Body(<<>>, <<>>, NotADate, "", Absent, <<"A", "l">>, "true")
CollectionBodies ==
    {GoodCollectionBody,
     [GoodCollectionBody EXCEPT !.name = <<"A", " ">>],
     [GoodCollectionBody EXCEPT !.is_public = "absent"],
     [GoodCollectionBody EXCEPT !.is_public = "yes"]}

\* gigValidation at time t: the fields that fail
GigValidation(body, t) ==
    {f \in {"title", "venue", "date", "genre", "price"} :
        CASE f = "title" -> ~(Len(Trim(body.title)) >= TitleMinLength
                              /\ Len(Trim(body.title)) <= TitleMaxLength)
          [] f = "venue" -> ~(Len(Trim(body.venue)) >= TitleMinLength
                              /\ Len(Trim(body.venue)) <= TitleMaxLength)
          [] f = "date" -> ~body.date.iso \/ body.date.t < t
          [] f = "genre" -> body.genre \notin GigGenres
          [] OTHER -> body.price.given /\ body.price.v < 0}

\* collectionValidation: the fields that fail
CollectionValidation(body) ==
    {f \in {"name", "is_public"} :
        CASE f = "name" -> ~(Len(Trim(body.name)) >= CollectionNameMinLength
                             /\ Len(Trim(body.name)) <= CollectionNameMaxLength)
          [] OTHER -> body.is_public \notin {"absent", "true", "false"}}

(***************************************************************************)
(* A request travelling through the middleware chain of a route            *)
(***************************************************************************)
PutGigRoute == "PUT /api/gigs/:id"
DeleteGigRoute == "DELETE /api/gigs/:id"
PutCollectionRoute == "PUT /api/collections/:id"
DeleteCollectionRoute == "DELETE /api/collections/:id"
DraftMeRoute == "GET /api/auth/me (routes/auth.js draft)"
PostCollectionRoute == "POST /api/collections"
AddGigRoute == "POST /api/collections/:id/gigs/:gigId"
RemoveGigRoute == "DELETE /api/collections/:id/gigs/:gigId"

MutationRoutes == {PutGigRoute, DeleteGigRoute, PutCollectionRoute, DeleteCollectionRoute}
GigRoutes == {PutGigRoute, DeleteGigRoute}
MembershipRoutes == {AddGigRoute, RemoveGigRoute}
ValidatedRoutes == {PutGigRoute, PutCollectionRoute, PostCollectionRoute} \cup MembershipRoutes

MwUsers == {AdminUser, MemberUser(2, EmailA), MemberUser(3, EmailC)}

\* Tokens a client of the middleware chain may present at time t: issued to a
\* stored user at an earlier time, signed with the server's key or another.
IssueTimes(t) == {i \in {0, TickHours} : i <= t}
ClientTokens(t) ==
    {JwtSign(Identity(u), k, i) : u \in MwUsers, k \in {JWT_SECRET, "other"}, i \in IssueTimes(t)}
        \cup {GarbageToken}
ClientHeaders(t) ==
    {NoHeader, HeaderOf(<<>>), HeaderOf(<<Word("Bearer")>>), HeaderOf(<<Word("Bearer"), Space>>)}
        \cup {BearerHeader(tok) : tok \in ClientTokens(t)}
        \cup {HeaderOf(<<TokenText(tok)>>) : tok \in ClientTokens(t)}
        \cup {HeaderOf(<<Word("Bearer"), Space, Space, TokenText(tok)>>) : tok \in ClientTokens(t)}
        \cup {HeaderOf(<<Word("Basic"), Space, TokenText(tok)>>) : tok \in ClientTokens(t)}
        \cup {HeaderOf(<<Word("Bearer"), Space, TokenText(tok), TokenText(tok)>>) : tok \in ClientTokens(t)}

ParamIds == {<<"1">>, <<"2">>}

\* the :id and :gigId a client may put in the path of a membership route
MembershipIds == {<<"1">>, <<"2">>, <<"0">>, <<"x">>}

\* isInt({ min }): a decimal numeral without leading zero, at least min (the
\* clients of the model send no sign)
IsInt(str, min) ==
    /\ str # <<>>
    /\ \A i \in DOMAIN str : IsDigit(str[i])
    /\ (Len(str) = 1 \/ str[1] # "0")
    /\ Decimal(str) >= min

\* the param chain of the membership routes: the fields that fail
MembershipValidation(id, gigId) ==
    {f \in {"id", "gigId"} : ~IsInt(IF f = "id" THEN id ELSE gigId, 1)}

InitMw ==
    /\ users = MwUsers
    /\ users_id_seq = 3
    /\ gigs = {GigRow(1, 2)}
    /\ collections = {CollectionRow(1, 2)}
    /\ collection_gigs = {CollectionGigRow(1, 1)}
    /\ now = 0
    /\ reg = [c \in 1..MaxConn |-> RegIdle]
    /\ resp = RespNone
    /\ rq = RqIdle
    /\ gd = GuardIdle
    /\ tx = TxIdle
    /\ lim = LimIdle
    /\ proc = ProcListening

\* time passes
Tick ==
    /\ now + TickHours <= MaxClock
    /\ now' = now + TickHours
    /\ UNCHANGED <<users, users_id_seq, gigs, collections, collection_gigs, reg, resp, rq, gd, tx, lim, proc>>

\* a request arrives on one of the routes
Arrive ==
    /\ rq.pc = "idle"
    /\ \/ \E route \in MutationRoutes \cup {DraftMeRoute}, header \in ClientHeaders(now),
             id \in ParamIds :
             \E body \in (IF route = PutGigRoute THEN GigBodies
                          ELSE IF route = PutCollectionRoute THEN CollectionBodies
                          ELSE {EmptyBody}) :
                rq' = [RqIdle EXCEPT !.pc = "auth", !.route = route, !.header = header,
                                     !.id = id, !.body = body]
       \/ \E header \in ClientHeaders(now), body \in CollectionBodies :
             rq' = [RqIdle EXCEPT !.pc = "auth", !.route = PostCollectionRoute,
                                  !.header = header, !.body = body]
       \/ \E route \in MembershipRoutes, header \in ClientHeaders(now),
             id \in MembershipIds, gigId \in MembershipIds :
             rq' = [RqIdle EXCEPT !.pc = "auth", !.route = route, !.header = header,
                                  !.id = id, !.gigId = gigId]
    /\ UNCHANGED <<users, users_id_seq, gigs, collections, collection_gigs, now, reg, resp, gd, tx, lim, proc>>

\* what the chain does once a verifier has answered
AfterVerifier(out) ==
    IF out.next
    THEN [rq EXCEPT !.pc = IF rq.route \in ValidatedRoutes THEN "validate" ELSE "handler",
                    !.user = out.user, !.at = now, !.nexts = 1]
    ELSE [rq EXCEPT !.pc = "responded", !.status = out.status, !.code = out.code, !.at = now]

\* authenticateToken of middleware/auth, mounted on the gigs and collections routes
RunAuthenticateToken ==
    /\ rq.pc = "auth"
    /\ rq.route \in MutationRoutes \cup MembershipRoutes \cup {PostCollectionRoute}
    /\ rq' = AfterVerifier(AuthenticateToken(rq.header, now))
    /\ UNCHANGED <<users, users_id_seq, gigs, collections, collection_gigs, now, reg, resp, gd, tx, lim, proc>>

\* authenticateToken as drafted in routes/auth.js, mounted on its /me route
RunDraftAuthenticateToken ==
    /\ rq.pc = "auth"
    /\ rq.route = DraftMeRoute
    /\ rq' = AfterVerifier(DraftAuthenticateToken(rq.header, now))
    /\ UNCHANGED <<users, users_id_seq, gigs, collections, collection_gigs, now, reg, resp, gd, tx, lim, proc>>

\* the validation chain records the failing fields and always continues
RunValidation ==
    /\ rq.pc = "validate"
    /\ rq' = [rq EXCEPT !.pc = "handler",
                        !.errors = IF rq.route = PutGigRoute THEN GigValidation(rq.body, now)
                                   ELSE IF rq.route \in MembershipRoutes
                                   THEN MembershipValidation(rq.id, rq.gigId)
                                   ELSE CollectionValidation(rq.body)]
    /\ UNCHANGED <<users, users_id_seq, gigs, collections, collection_gigs, now, reg, resp, gd, tx, lim, proc>>

\* a PUT handler: 400 on validation errors, otherwise it returns without
\* answering and without touching the store
PutHandlerResult ==
    IF rq.errors # {}
    THEN [rq EXCEPT !.pc = "responded", !.handler = TRUE, !.status = 400,
                    !.code = "Validation failed"]
    ELSE [rq EXCEPT !.pc = "returned", !.handler = TRUE]

\* router.put('/:id') of the gigs router
PutGig ==
    /\ rq.pc = "handler"
    /\ rq.route = PutGigRoute
    /\ rq' = PutHandlerResult
    /\ UNCHANGED <<users, users_id_seq, gigs, collections, collection_gigs, now, reg, resp, gd, tx, lim, proc>>

\* router.delete('/:id') of the gigs router
DeleteGig ==
    /\ rq.pc = "handler"
    /\ rq.route = DeleteGigRoute
    /\ rq' = [rq EXCEPT !.pc = "returned", !.handler = TRUE]
    /\ UNCHANGED <<users, users_id_seq, gigs, collections, collection_gigs, now, reg, resp, gd, tx, lim, proc>>

\* router.put('/:id') of the collections router
PutCollection ==
    /\ rq.pc = "handler"
    /\ rq.route = PutCollectionRoute
    /\ rq' = PutHandlerResult
    /\ UNCHANGED <<users, users_id_seq, gigs, collections, collection_gigs, now, reg, resp, gd, tx, lim, proc>>

\* router.delete('/:id') of the collections router
DeleteCollection ==
    /\ rq.pc = "handler"
    /\ rq.route = DeleteCollectionRoute
    /\ rq' = [rq EXCEPT !.pc = "returned", !.handler = TRUE]
    /\ UNCHANGED <<users, users_id_seq, gigs, collections, collection_gigs, now, reg, resp, gd, tx, lim, proc>>

\* A create handler that inserts the collection without looking for the
\* name among the collections of the user.
PostCollectionInserting ==
    /\ rq.pc = "handler"
    /\ rq.route = PostCollectionRoute
    /\ rq' = IF rq.errors # {} THEN PutHandlerResult
             ELSE [rq EXCEPT !.pc = "responded", !.handler = TRUE, !.status = 201]
    /\ collections' =
          IF rq.errors # {} THEN collections
          ELSE collections \cup
                 {[CollectionRow(Cardinality(collections) + 1, rq.user.id)
                     EXCEPT !.name = Trim(rq.body.name),
                            !.is_public = (rq.body.is_public = "true")]}
    /\ UNCHANGED <<users, users_id_seq, gigs, collection_gigs, now, reg, resp, gd, tx, lim, proc>>

\* router.post('/') of the collections router
PostCollection ==
    /\ rq.pc = "handler"
    /\ rq.route = PostCollectionRoute
    /\ rq' = PutHandlerResult
    /\ UNCHANGED <<users, users_id_seq, gigs, collections, collection_gigs, now, reg, resp, gd, tx, lim, proc>>

\* router.post('/:id/gigs/:gigId') of the collections router: the result of
\* the param chain is never read
AddGigToCollection ==
    /\ rq.pc = "handler"
    /\ rq.route = AddGigRoute
    /\ rq' = [rq EXCEPT !.pc = "returned", !.handler = TRUE]
    /\ UNCHANGED <<users, users_id_seq, gigs, collections, collection_gigs, now, reg, resp, gd, tx, lim, proc>>

\* router.delete('/:id/gigs/:gigId') of the collections router
RemoveGigFromCollection ==
    /\ rq.pc = "handler"
    /\ rq.route = RemoveGigRoute
    /\ rq' = [rq EXCEPT !.pc = "returned", !.handler = TRUE]
    /\ UNCHANGED <<users, users_id_seq, gigs, collections, collection_gigs, now, reg, resp, gd, tx, lim, proc>>

\* router.get('/me') of the routes/auth.js draft
DraftMe ==
    /\ rq.pc = "handler"
    /\ rq.route = DraftMeRoute
    /\ rq' = [rq EXCEPT !.pc = "returned", !.handler = TRUE]
    /\ UNCHANGED <<users, users_id_seq, gigs, collections, collection_gigs, now, reg, resp, gd, tx, lim, proc>>

\* the exchange is over: the response was delivered, or the connection of a
\* request that was never answered is dropped
Finish ==
    /\ rq.pc \in {"responded", "returned"}
    /\ rq' = RqIdle
    /\ UNCHANGED <<users, users_id_seq, gigs, collections, collection_gigs, now, reg, resp, gd, tx, lim, proc>>

NextMw ==
    \/ Tick
    \/ Arrive
    \/ Finish
    \/ RunAuthenticateToken
    \/ RunDraftAuthenticateToken
    \/ RunValidation
    \/ PutGig
    \/ DeleteGig
    \/ PutCollection
    \/ DeleteCollection
    \/ PostCollection
    \/ AddGigToCollection
    \/ RemoveGigFromCollection
    \/ DraftMe

SpecMw == InitMw /\ [][NextMw]_vars

(***************************************************************************)
(* Claims about the middleware chain and the ownership guard               *)
(***************************************************************************)
\* the request went through its whole chain
RqFinished == rq.pc \in {"responded", "returned"}

\* the request carried a token that verifies at the time the verifier ran
RqVerified == JwtVerify(BearerToken(rq.header), JWT_SECRET, rq.at).err = ""
RqIdentity == JwtVerify(BearerToken(rq.header), JWT_SECRET, rq.at).payload

\* the rows the request's :id names, in the table of its route
RqRows ==
    {r \in (IF rq.route \in GigRoutes THEN gigs ELSE collections) :
        r.id = ParseInt(JsString(rq.id)).n}

StoreAsSeeded ==
    /\ gigs = {GigRow(1, 2)}
    /\ collections = {CollectionRow(1, 2)}
    /\ collection_gigs = {CollectionGigRow(1, 1)}

\* C1: an update or delete of a gig or collection with a valid token of a
\* user who is neither the owner nor an admin is answered 403, and the
\* stored rows are the same before and after.
C1_NonOwnerMutationAnswers403 ==
    (/\ RqFinished
     /\ rq.route \in MutationRoutes
     /\ RqVerified
     /\ rq.errors = {}
     /\ RqIdentity.role # "admin"
     /\ \E r \in RqRows : r.user_id # RqIdentity.id)
        => (rq.status = 403 /\ StoreAsSeeded)

\* C2: with an identity, the guard calls next exactly when identity.id is the
\* owner id or the role is admin, and answers 403 ownership required otherwise.
C2_GuardAllowsIffOwnerOrAdmin ==
    (gd.pc = "guarded" /\ gd.user # NoUser)
        => LET owner == ParseInt(JsOr(gd.bodyVal, gd.paramVal))
               allowed == (~owner.nan /\ owner.n = gd.user.id) \/ gd.user.role = "admin"
           IN  /\ gd.out.next <=> allowed
               /\ ~gd.out.next => (gd.out.status = 403 /\ gd.out.code = "OWNERSHIP_REQUIRED")

\* C3: behind any draft of authenticateToken the handler runs only for a
\* token whose signature and expiry verified, with req.user the identity of
\* that token.
C3_HandlerOnlyAfterVerification ==
    rq.handler => (RqVerified /\ rq.user = RqIdentity)

\* the header is absent or holds no space, hence no second part
NoSecondPart(header) ==
    ~header.present \/ \A i \in DOMAIN header.chars : header.chars[i] # Space

\* C4: a request without a bearer token (no header, or a header without a
\* second space-separated part) is answered 401 and the handler never runs.
C4_MissingTokenAnswers401 ==
    (rq.pc \notin {"idle", "auth"} /\ NoSecondPart(rq.header))
        => (rq.pc = "responded" /\ rq.status = 401 /\ ~rq.handler /\ rq.user = NoUser)

C4_Witness ==
    /\ rq.pc = "responded"
    /\ rq.status = 401
    /\ rq.header.present
    /\ rq.header.chars # <<>>
    /\ NoSecondPart(rq.header)
    /\ BearerTokenFirstPiece(rq.header).fmt = "jwt"

\* C8: an update or delete naming an id without a row is answered 404,
\* whoever asks.
C8_MissingResourceAnswers404 ==
    (/\ RqFinished
     /\ rq.route \in MutationRoutes
     /\ RqVerified
     /\ rq.errors = {}
     /\ RqRows = {})
        => rq.status = 404

(***************************************************************************)
(* The auth router: register, login, me, logout                            *)
(***************************************************************************)
Count(s, c) == Cardinality({i \in DOMAIN s : s[i] = c})

\* isEmail: one @ with text on both sides
IsEmail(e) == Count(e, "@") = 1 /\ e[1] # "@" /\ e[Len(e)] # "@"

\* normalizeEmail: the address in lower case
NormalizeEmail(e) == [i \in DOMAIN e |-> ToLower(e[i])]

\* the pattern without its look-ahead for a digit
MatchesPasswordPatternNoDigit(p) ==
    /\ \E i \in DOMAIN p : IsLower(p[i])
    /\ \E i \in DOMAIN p : IsUpper(p[i])

\* /^(?=.*[a-z])(?=.*[A-Z])(?=.*\d)/
MatchesPasswordPattern(p) ==
    /\ \E i \in DOMAIN p : IsLower(p[i])
    /\ \E i \in DOMAIN p : IsUpper(p[i])
    /\ \E i \in DOMAIN p : IsDigit(p[i])

ValidationError(param, msg, value) == [param |-> param, msg |-> msg, value |-> value]

\* registerValidation: errors.array()
RegisterValidation(name, email, password) ==
    {ValidationError("name", "length", Trim(name)) :
        x \in {1} \ {IF Len(Trim(name)) >= NameMinLength /\ Len(Trim(name)) <= NameMaxLength
                     THEN 1 ELSE 0}}
    \cup {ValidationError("email", "email", email) : x \in {1} \ {IF IsEmail(email) THEN 1 ELSE 0}}
    \cup {ValidationError("password", "length", password) :
            x \in {1} \ {IF Len(password) >= PasswordMinLength THEN 1 ELSE 0}}
    \cup {ValidationError("password", "pattern", password) :
            x \in {1} \ {IF MatchesPasswordPattern(password) THEN 1 ELSE 0}}

\* loginValidation: errors.array()
LoginValidation(email, password) ==
    {ValidationError("email", "email", email) : x \in {1} \ {IF IsEmail(email) THEN 1 ELSE 0}}
    \cup {ValidationError("password", "empty", password) :
            x \in {1} \ {IF password # <<>> THEN 1 ELSE 0}}

Project(row, cols) == [c \in cols |-> row[c]]

\* SELECT * in place of the column list
MeColumnsStar ==
    {"id", "name", "email", "password_hash", "bio", "avatar_url", "location", "website_url",
     "social_links", "role", "created_at", "updated_at"}

\* the columns GET /me selects
MeColumns ==
    {"id", "name", "email", "bio", "avatar_url", "location", "website_url", "social_links",
     "role", "created_at", "updated_at"}

\* the columns of the row login selects
LoginColumns == {"id", "name", "email", "password_hash", "bio", "role", "created_at"}

\* the columns INSERT ... RETURNING gives back
ReturningColumns == {"id", "name", "email", "bio", "role", "created_at"}

\* the user object of the register and login responses
ResponseUser(user) ==
    [id |-> user.id, name |-> user.name, email |-> user.email, bio |-> user.bio,
     role |-> user.role, created_at |-> user.created_at]

Answer(route, status, error, user, token, details, reqToken) ==
    [route |-> route, status |-> status, error |-> error, user |-> user, token |-> token,
     details |-> details, reqToken |-> reqToken, req |-> NoCredentials, at |-> now]

\* the existence check finds nobody
ExistingUserNone(email) == {}

\* SELECT id FROM users WHERE email = $1
ExistingUser(email) == {u \in users : u.email = email}

RegisterNames == {NameAl, NameShort}
RegisterEmails == {EmailA, EmailAUpper, EmailB, EmailNoAt}
RegisterPasswords == {PasswordStrong, PasswordWeak}
LoginPasswords == {PasswordStrong, PasswordOther, <<>>}

Busy == {c \in 1..MaxConn : reg[c].pc # "idle"}

Init ==
    /\ users = {AdminUser}
    /\ users_id_seq = 1
    /\ gigs = {}
    /\ collections = {}
    /\ collection_gigs = {}
    /\ now = 0
    /\ reg = [c \in 1..MaxConn |-> RegIdle]
    /\ resp = RespNone
    /\ rq = RqIdle
    /\ gd = GuardIdle
    /\ tx = TxIdle
    /\ lim = LimIdle
    /\ proc = ProcListening

\* registerValidation and the register handler up to its first await, for
\* a body with this name, email and password: validation, then the
\* existence query is sent
RegisterBody(c, name, email, password) ==
    LET errors == RegisterValidation(name, email, password)
    IN  IF errors # {}
        THEN /\ resp' = Answer("register", 400, "Validation failed", NoRow, NoToken,
                               errors, NoToken)
             /\ reg' = reg
        ELSE /\ users_id_seq + Cardinality(Busy) < MaxUserId
             /\ reg' = [reg EXCEPT ![c] = [pc |-> "select", name |-> Trim(name),
                                           email |-> NormalizeEmail(email),
                                           password |-> password, hash |-> NoHash]]
             /\ resp' = resp

\* POST /api/auth/register up to its first await
RegisterReceive(c) ==
    /\ reg[c].pc = "idle"
    /\ \E name \in RegisterNames, email \in RegisterEmails, password \in RegisterPasswords :
          RegisterBody(c, name, email, password)
    /\ UNCHANGED <<users, users_id_seq, gigs, collections, collection_gigs, now, rq, gd, tx, lim, proc>>

\* the existence query answers: 409 when the email is taken, otherwise the
\* password is hashed and the INSERT is sent
RegisterSelect(c) ==
    /\ reg[c].pc = "select"
    /\ IF ExistingUser(reg[c].email) # {}
       THEN /\ resp' = Answer("register", 409, "User already exists", NoRow, NoToken, {}, NoToken)
            /\ reg' = [reg EXCEPT ![c] = RegIdle]
       ELSE /\ reg' = [reg EXCEPT ![c].pc = "insert",
                                  ![c].hash = BcryptHash(reg[c].password, SaltRounds)]
            /\ resp' = resp
    /\ UNCHANGED <<users, users_id_seq, gigs, collections, collection_gigs, now, rq, gd, tx, lim, proc>>

\* the INSERT answers: the row, a token and 201, or the unique constraint on
\* users.email throws and the handler's catch answers 500; the catch answers
\* 500 too when jwt.sign throws, after the row was stored
RegisterInsert(c) ==
    /\ reg[c].pc = "insert"
    /\ users_id_seq' = users_id_seq + 1
    /\ IF \E u \in users : u.email = reg[c].email
       THEN /\ users' = users
            /\ resp' = Answer("register", 500, "Registration failed", NoRow, NoToken, {}, NoToken)
       ELSE LET row == UserRow(users_id_seq + 1, reg[c].name, reg[c].email, reg[c].hash, NULL, now)
                user == Project(row, ReturningColumns)
                token == JwtSign([id |-> user.id, email |-> user.email, role |-> user.role],
                                 proc.secret, now)
            IN  /\ users' = users \cup {row}
                /\ resp' = IF JwtSignThrows(proc.secret)
                           THEN Answer("register", 500, "Registration failed", NoRow, NoToken,
                                       {}, NoToken)
                           ELSE Answer("register", 201, "", ResponseUser(user), token, {},
                                       NoToken)
    /\ reg' = [reg EXCEPT ![c] = RegIdle]
    /\ UNCHANGED <<gigs, collections, collection_gigs, now, rq, gd, tx, lim, proc>>

\* a login that tells an unknown email from a wrong password
LoginResponseRevealing(email, password) ==
    LET errors == LoginValidation(email, password)
        rows == {Project(u, LoginColumns) : u \in {v \in users : v.email = NormalizeEmail(email)}}
    IN  IF errors # {}
        THEN Answer("login", 400, "Validation failed", NoRow, NoToken, errors, NoToken)
        ELSE IF rows = {}
        THEN Answer("login", 404, "User not found", NoRow, NoToken, {}, NoToken)
        ELSE LET user == CHOOSE u \in rows : TRUE
             IN  IF ~BcryptCompare(password, user.password_hash)
                 THEN Answer("login", 401, "Invalid credentials", NoRow, NoToken, {}, NoToken)
                 ELSE Answer("login", 200, "", ResponseUser(user),
                             JwtSign([id |-> user.id, email |-> user.email,
                                      role |-> user.role], proc.secret, now),
                             {}, NoToken)

\* the response of POST /api/auth/login to a body with this email and password
LoginResponse(email, password) ==
    LET errors == LoginValidation(email, password)
        rows == {Project(u, LoginColumns) : u \in {v \in users : v.email = NormalizeEmail(email)}}
    IN  IF errors # {}
        THEN Answer("login", 400, "Validation failed", NoRow, NoToken, errors, NoToken)
        ELSE IF rows = {}
        THEN Answer("login", 401, "Invalid credentials", NoRow, NoToken, {}, NoToken)
        ELSE LET user == CHOOSE u \in rows : TRUE
             IN  IF ~BcryptCompare(password, user.password_hash)
                 THEN Answer("login", 401, "Invalid credentials", NoRow, NoToken, {}, NoToken)
                 ELSE IF JwtSignThrows(proc.secret)
                 THEN Answer("login", 500, "Login failed", NoRow, NoToken, {}, NoToken)
                 ELSE Answer("login", 200, "", ResponseUser(user),
                             JwtSign([id |-> user.id, email |-> user.email,
                                      role |-> user.role], proc.secret, now),
                             {}, NoToken)

\* POST /api/auth/login
Login ==
    /\ \E email \in RegisterEmails, password \in LoginPasswords :
          resp' = [LoginResponse(email, password) EXCEPT !.req = Credentials(email, password)]
    /\ UNCHANGED <<users, users_id_seq, gigs, collections, collection_gigs, now, reg, rq, gd, tx, lim, proc>>

\* The headers a client can send: none, or Bearer with a token it received
\* or sent before, that token re-signed with another key, or text that is no
\* token.
Forged(token) == [token EXCEPT !.sig = "other"]
KnownTokens == {resp.token, resp.reqToken} \ {NoToken, GarbageToken}
AuthHeaders ==
    {NoHeader, BearerHeader(GarbageToken)}
        \cup {BearerHeader(t) : t \in KnownTokens}
        \cup {BearerHeader(Forged(t)) : t \in KnownTokens}

\* GET /api/auth/me behind authenticateToken
Me ==
    /\ \E header \in AuthHeaders :
          LET out == AuthenticateToken(header, now)
              rows == {Project(u, MeColumns) : u \in {v \in users : v.id = out.user.id}}
          IN  resp' =
                IF ~out.next
                THEN Answer("me", out.status, out.code, NoRow, NoToken, {}, BearerToken(header))
                ELSE IF rows = {}
                THEN Answer("me", 404, "User not found", NoRow, NoToken, {}, BearerToken(header))
                ELSE Answer("me", 200, "", CHOOSE u \in rows : TRUE, NoToken, {},
                            BearerToken(header))
    /\ UNCHANGED <<users, users_id_seq, gigs, collections, collection_gigs, now, reg, rq, gd, tx, lim, proc>>

\* POST /api/auth/logout behind authenticateToken
Logout ==
    /\ \E header \in AuthHeaders :
          LET out == AuthenticateToken(header, now)
          IN  resp' =
                IF ~out.next
                THEN Answer("logout", out.status, out.code, NoRow, NoToken, {}, BearerToken(header))
                ELSE Answer("logout", 200, "", NoRow, NoToken, {}, BearerToken(header))
    /\ UNCHANGED <<users, users_id_seq, gigs, collections, collection_gigs, now, reg, rq, gd, tx, lim, proc>>

\* POST /api/auth/logout as drafted in routes/auth.js: no verifier is mounted
DraftLogout ==
    /\ \E header \in AuthHeaders :
          resp' = Answer("logout (routes/auth.js draft)", 200, "", NoRow, NoToken, {},
                         BearerToken(header))
    /\ UNCHANGED <<users, users_id_seq, gigs, collections, collection_gigs, now, reg, rq, gd, tx, lim, proc>>

Next ==
    \/ Tick
    \/ DraftLogout
    \/ \E c \in 1..MaxConn : RegisterReceive(c)
    \/ \E c \in 1..MaxConn : RegisterSelect(c)
    \/ \E c \in 1..MaxConn : RegisterInsert(c)
    \/ Login
    \/ Me
    \/ Logout

Spec == Init /\ [][Next]_vars

(***************************************************************************)
(* Claims about the auth router                                            *)
(***************************************************************************)
\* the last exchange presented a token that register or login signed
PresentedMintedToken ==
    /\ resp.route \in {"me", "logout"}
    /\ resp.reqToken.fmt = "jwt"
    /\ resp.reqToken.sig = JWT_SECRET

\* C5: a token minted at time t is accepted at every time before t + 24h, and
\* after t + 24h it is rejected as expired (403 TOKEN_EXPIRED), never as invalid.
C5_TokenLivesTwentyFourHours ==
    PresentedMintedToken
        => /\ resp.at < resp.reqToken.iat + 24 => resp.status = 200
           /\ resp.at > resp.reqToken.iat + 24
                => (resp.status = 403 /\ resp.error = "TOKEN_EXPIRED")

C5_Witness ==
    /\ PresentedMintedToken
    /\ resp.route = "me"
    /\ resp.at > resp.reqToken.iat + 24
    /\ resp.status = 403
    /\ resp.error = "TOKEN_EXPIRED"

\* C6: the token of a 201 registration, verified at once by the required
\* verifier, yields the id, email and role of the row just created, which are
\* also those of the user object of the same response.
C6_RegisterTokenNamesCreatedUser ==
    (resp.route = "register" /\ resp.status = 201)
        => LET out == AuthenticateToken(BearerHeader(resp.token), resp.at)
           IN  /\ out.next
               /\ \E u \in users :
                     /\ u.created_at = resp.at
                     /\ out.user = [id |-> u.id, email |-> u.email, role |-> u.role]
                     /\ resp.user.id = u.id
                     /\ resp.user.email = u.email
                     /\ resp.user.role = u.role

C6_Witness ==
    /\ resp.route = "register"
    /\ resp.status = 201
    /\ resp.token.fmt = "jwt"
    /\ \E u \in users : u.id = resp.token.id /\ u.id > 1

\* C7: no response of register, login or me carries a stored password hash or
\* the plaintext password of a stored user.
C7_NoPasswordInResponses ==
    /\ "password_hash" \notin DOMAIN resp.user
    /\ "password" \notin DOMAIN resp.user
    /\ \A d \in resp.details : \A u \in users : ~BcryptCompare(d.value, u.password_hash)

C7_Witness ==
    /\ resp.route = "me"
    /\ resp.status = 200
    /\ resp.user.id > 1
    /\ \E u \in users : u.id = resp.user.id /\ u.password_hash.of = PasswordStrong

\* C9: of two concurrent registrations of one normalized email, one answers
\* 201 with a token and the other 409, and one row holds the email: a
\* registration whose INSERT finds the email taken answers 409.
C9_RacingRegisterAnswers409 ==
    [][\A c \in 1..MaxConn :
          (reg[c].pc = "insert" /\ reg'[c].pc = "idle")
              => /\ Cardinality({u \in users' : u.email = reg[c].email}) = 1
                 /\ IF \E u \in users : u.email = reg[c].email
                    THEN resp'.status = 409 /\ resp'.token = NoToken
                    ELSE resp'.status = 201 /\ resp'.token # NoToken]_vars

MatchingUsers(cred) ==
    {u \in users : u.email = NormalizeEmail(cred.email) /\ u.password_hash.of = cred.password}

\* a login was answered in this step
LoginAnswered == resp'.route = "login" /\ resp' # resp

\* C11 as stated: login returns a token only for an email with a row and the
\* password of that row; any other login is answered 401 without token or
\* user data, and the store is unchanged.
C11_LoginMismatchAnswers401 ==
    [][LoginAnswered
          => /\ resp'.token # NoToken => MatchingUsers(resp'.req) # {}
             /\ MatchingUsers(resp'.req) = {}
                   => (resp'.status = 401 /\ resp'.token = NoToken /\ resp'.user = NoRow)
             /\ users' = users
             /\ users_id_seq' = users_id_seq]_vars

\* the body of a login passes loginValidation: the email has the form of an
\* address and the password is not empty
LoginWellFormed(cred) == IsEmail(cred.email) /\ cred.password # <<>>

\* C11 (amended): login returns a token only for an email with a row and the
\* password of that row; a login with an unknown email or a wrong password
\* is answered 401 when its body passes validation and 400 when it does not,
\* in both cases without token or user data, and the store is unchanged.
C11_LoginTokenOnlyForMatch ==
    [][LoginAnswered
          => /\ resp'.token # NoToken
                   => \E u \in MatchingUsers(resp'.req) :
                         /\ resp'.status = 200
                         /\ resp'.token.id = u.id
                         /\ resp'.user.id = u.id
             /\ MatchingUsers(resp'.req) = {}
                   => /\ resp'.status = (IF LoginWellFormed(resp'.req) THEN 401 ELSE 400)
                      /\ resp'.token = NoToken
                      /\ resp'.user = NoRow
             /\ users' = users
             /\ users_id_seq' = users_id_seq]_vars

\* a registered member's login with the password of another account was
\* answered 401
C11_Witness ==
    /\ resp.route = "login"
    /\ resp.status = 401
    /\ resp.req.password = PasswordOther
    /\ \E u \in users : u.id > 1 /\ u.email = NormalizeEmail(resp.req.email)

\* the last exchange was a logout answered 200
LoggedOut(r) == r.route \in {"logout", "logout (routes/auth.js draft)"} /\ r.status = 200

\* the token is one the server signed and has not expired at time t
Unexpired(token, t) == token.fmt = "jwt" /\ token.sig = JWT_SECRET /\ t < token.exp

\* C12: logout changes no server state, and the token it was sent with is
\* accepted by the required verifier afterwards exactly as before: at every
\* time until its expiry, on the protected routes.
C12_LogoutRevokesNothing ==
    [][/\ (LoggedOut(resp') /\ resp' # resp)
            => (/\ users' = users
                /\ users_id_seq' = users_id_seq
                /\ gigs' = gigs
                /\ collections' = collections
                /\ collection_gigs' = collection_gigs)
       /\ LoggedOut(resp)
            => /\ \A t \in resp.at..MaxClock :
                     AuthenticateToken(BearerHeader(resp.reqToken), t).next
                        <=> Unexpired(resp.reqToken, t)
               /\ (/\ resp'.route \in {"me", "logout"}
                   /\ resp'.reqToken = resp.reqToken
                   /\ Unexpired(resp.reqToken, resp'.at))
                      => resp'.status = 200]_vars

\* a logout with the token of a registered member was answered 200, hours
\* after the token was signed, and the verifier still accepts the token
C12_Witness ==
    /\ resp.route = "logout"
    /\ resp.status = 200
    /\ resp.reqToken.id > 1
    /\ resp.at > resp.reqToken.iat
    /\ AuthenticateToken(BearerHeader(resp.reqToken), now).next

(***************************************************************************)
(* Registration with every kind of password                                *)
(***************************************************************************)
PolicyPasswords ==
    {PasswordStrong, PasswordWeak, PasswordShort, PasswordNoDigit, PasswordNoUpper,
     PasswordNoLower}

\* POST /api/auth/register up to its first await, on connection c
RegisterReceivePolicy(c) ==
    /\ reg[c].pc = "idle"
    /\ \E name \in RegisterNames, email \in RegisterEmails, password \in PolicyPasswords :
          RegisterBody(c, name, email, password)
    /\ UNCHANGED <<users, users_id_seq, gigs, collections, collection_gigs, now, rq, gd, tx, lim, proc>>

NextRegister ==
    \/ RegisterReceivePolicy(1)
    \/ \E c \in 1..MaxConn : RegisterSelect(c)
    \/ \E c \in 1..MaxConn : RegisterInsert(c)

SpecRegister == Init /\ [][NextRegister]_vars

\* the password is shorter than 6 characters or lacks an upper-case letter,
\* a lower-case letter or a digit
AgainstPolicy(password) ==
    \/ Len(password) < 6
    \/ \A i \in DOMAIN password : password[i] \notin {"A", "B"}
    \/ \A i \in DOMAIN password : password[i] \notin {"a", "b", "c", "d", "e", "l", "x"}
    \/ \A i \in DOMAIN password : password[i] \notin {"0", "1", "2", "3"}

\* C20: a register request with a password against the policy is answered
\* 400 with a detail for the field password, and nothing else happens: no
\* query is sent, nothing is hashed, no row is created, no token signed.
C20_WeakPasswordRejectedAtBoundary ==
    [][\A c \in 1..MaxConn, name \in RegisterNames, email \in RegisterEmails,
          password \in PolicyPasswords :
            (reg[c].pc = "idle" /\ AgainstPolicy(password)
               /\ RegisterBody(c, name, email, password))
              => /\ resp'.route = "register"
                 /\ resp'.status = 400
                 /\ \E d \in resp'.details : d.param = "password" /\ d.value = password
                 /\ resp'.token = NoToken
                 /\ resp'.user = NoRow
                 /\ reg' = reg
                 /\ users' = users
                 /\ users_id_seq' = users_id_seq]_vars

\* a registration whose only fault is a password without a digit was
\* answered 400
C20_Witness ==
    /\ resp.route = "register"
    /\ resp.status = 400
    /\ resp.details = {ValidationError("password", "pattern", PasswordNoDigit)}
    /\ \A u \in users : u.password_hash.of # PasswordNoDigit

(***************************************************************************)
(* optionalAuth applied to a request                                       *)
(***************************************************************************)
\* what a middleware did: how often it called next, the status it sent (0
\* when it sent nothing) and req.user afterwards
MiddlewareOutcome(nexts, status, user) == [nexts |-> nexts, status |-> status, user |-> user]

\* optionalAuth written after authenticateToken: a token that does not verify
\* is answered 403
OptionalAuthRejecting(header, t) ==
    LET token == BearerToken(header)
    IN  IF token = NoToken THEN MiddlewareOutcome(1, 0, NoUser)
        ELSE LET v == JwtVerify(token, JWT_SECRET, t)
             IN  IF v.err = ""
                 THEN MiddlewareOutcome(1, 0, [id |-> v.payload.id, email |-> v.payload.email,
                                               role |-> v.payload.role])
                 ELSE MiddlewareOutcome(0, 403, NoUser)

\* optionalAuth of middleware/auth
OptionalAuth(header, t) ==
    LET token == BearerToken(header)
    IN  IF token = NoToken THEN MiddlewareOutcome(1, 0, NoUser)
        ELSE LET v == JwtVerify(token, JWT_SECRET, t)
             IN  IF v.err = ""
                 THEN MiddlewareOutcome(1, 0, [id |-> v.payload.id, email |-> v.payload.email,
                                               role |-> v.payload.role])
                 ELSE MiddlewareOutcome(1, 0, NoUser)

OptionalRoute == "optionalAuth"

\* a request arrives on a route that mounts optionalAuth
OptionalArrive ==
    /\ rq.pc = "idle"
    /\ \E header \in ClientHeaders(now) :
          rq' = [RqIdle EXCEPT !.pc = "optional", !.route = OptionalRoute, !.header = header]
    /\ UNCHANGED <<users, users_id_seq, gigs, collections, collection_gigs, now, reg, resp, gd, tx, lim, proc>>

\* optionalAuth runs
RunOptionalAuth ==
    /\ rq.pc = "optional"
    /\ LET out == OptionalAuth(rq.header, now)
       IN  rq' = [rq EXCEPT !.pc = "after", !.nexts = out.nexts, !.status = out.status,
                            !.user = out.user, !.at = now]
    /\ UNCHANGED <<users, users_id_seq, gigs, collections, collection_gigs, now, reg, resp, gd, tx, lim, proc>>

\* the rest of the chain is done with the request
OptionalFinish ==
    /\ rq.pc = "after"
    /\ rq' = RqIdle
    /\ UNCHANGED <<users, users_id_seq, gigs, collections, collection_gigs, now, reg, resp, gd, tx, lim, proc>>

NextOptional == Tick \/ OptionalArrive \/ RunOptionalAuth \/ OptionalFinish

SpecOptional == InitMw /\ [][NextOptional]_vars

\* C13: optionalAuth never sends a response and calls next exactly once;
\* req.user is the {id, email, role} of a token that verifies and is left
\* unset when the token is absent, expired or invalid.
C13_OptionalAuthAlwaysContinues ==
    rq.pc = "after"
        => LET token == BearerToken(rq.header)
           IN  /\ rq.status = 0
               /\ rq.nexts = 1
               /\ rq.user = IF Unexpired(token, rq.at)
                            THEN [id |-> token.id, email |-> token.email, role |-> token.role]
                            ELSE NoUser

\* a request with an expired token of the server went on without identity
C13_Witness ==
    /\ rq.pc = "after"
    /\ BearerToken(rq.header).fmt = "jwt"
    /\ BearerToken(rq.header).sig = JWT_SECRET
    /\ rq.at >= BearerToken(rq.header).exp
    /\ rq.nexts = 1
    /\ rq.user = NoUser

(***************************************************************************)
(* Claims about collections and their gigs                                 *)
(***************************************************************************)
\* the numbers the path of the request names: :id and :gigId
RqId == ParseInt(JsString(rq.id)).n
RqGigId == ParseInt(JsString(rq.gigId)).n

\* an add of a pair the join table holds, by the owner of the collection,
\* has gone through its chain
AddedPresentPair ==
    /\ RqFinished
    /\ rq.route = AddGigRoute
    /\ RqVerified
    /\ rq.errors = {}
    /\ \E c \in collections : c.id = RqId /\ c.user_id = RqIdentity.id
    /\ \E j \in collection_gigs : j.collection_id = RqId /\ j.gig_id = RqGigId

\* C14: the join table holds at most one row per (collection id, gig id);
\* an add of a pair that is present creates and changes no row and is
\* answered with a conflict or no-op response, not with 201.
C14_DuplicateAddAnswersConflict ==
    /\ \A j, k \in collection_gigs :
          (j.collection_id = k.collection_id /\ j.gig_id = k.gig_id) => j = k
    /\ AddedPresentPair
          => (rq.pc = "responded" /\ rq.status # 0 /\ rq.status # 201 /\ StoreAsSeeded)

\* the handler of the request returns in this step
HandlerReturns(route) == rq.pc = "handler" /\ rq'.pc # "handler" /\ rq.route = route

\* C15: the delete of a collection removes the collection and exactly the
\* join rows of that collection; the delete of a gig removes the gig and
\* exactly the join rows of that gig; every join row names a stored
\* collection and a stored gig.
C15_DeleteCascadesToJoinRows ==
    [][/\ (HandlerReturns(DeleteCollectionRoute)
             /\ \E c \in collections : c.id = RqId /\ c.user_id = rq.user.id)
            => /\ collections' = {c \in collections : c.id # RqId}
               /\ collection_gigs' = {j \in collection_gigs : j.collection_id # RqId}
               /\ gigs' = gigs
       /\ (HandlerReturns(DeleteGigRoute)
             /\ \E g \in gigs : g.id = RqId /\ g.user_id = rq.user.id)
            => /\ gigs' = {g \in gigs : g.id # RqId}
               /\ collection_gigs' = {j \in collection_gigs : j.gig_id # RqId}
               /\ collections' = collections
       /\ \A j \in collection_gigs' :
             /\ \E c \in collections' : c.id = j.collection_id
             /\ \E g \in gigs' : g.id = j.gig_id]_vars

GetCollectionRoute == "GET /api/collections/:id"

\* a request for one collection arrives
ReadArrive ==
    /\ rq.pc = "idle"
    /\ \E header \in ClientHeaders(now), id \in MembershipIds :
          rq' = [RqIdle EXCEPT !.pc = "validate", !.route = GetCollectionRoute,
                               !.header = header, !.id = id]
    /\ UNCHANGED <<users, users_id_seq, gigs, collections, collection_gigs, now, reg, resp, gd, tx, lim, proc>>

\* param('id').isInt({ min: 1 })
RunIdValidation ==
    /\ rq.pc = "validate"
    /\ rq' = [rq EXCEPT !.pc = "handler",
                        !.errors = IF IsInt(rq.id, 1) THEN {} ELSE {"id"}]
    /\ UNCHANGED <<users, users_id_seq, gigs, collections, collection_gigs, now, reg, resp, gd, tx, lim, proc>>

\* router.get('/:id') of the collections router: 400 for a bad id, otherwise
\* it reads req.params.id and returns without a query and without an answer
GetCollection ==
    /\ rq.pc = "handler"
    /\ rq.route = GetCollectionRoute
    /\ rq' = IF rq.errors # {}
             THEN [rq EXCEPT !.pc = "responded", !.handler = TRUE, !.status = 400,
                             !.code = "Invalid collection ID", !.at = now]
             ELSE [rq EXCEPT !.pc = "returned", !.handler = TRUE, !.at = now]
    /\ UNCHANGED <<users, users_id_seq, gigs, collections, collection_gigs, now, reg, resp, gd, tx, lim, proc>>

NextRead == Tick \/ ReadArrive \/ RunIdValidation \/ GetCollection \/ Finish

SpecRead == InitMw /\ [][NextRead]_vars

\* C17: a request for a private collection is answered with the collection
\* (200) exactly when it carries a valid token of the owner: nobody else gets
\* the data, and the owner does.
C17_PrivateCollectionOnlyForOwner ==
    (RqFinished /\ rq.route = GetCollectionRoute)
        => \A c \in collections :
              (c.id = RqId /\ rq.errors = {} /\ ~c.is_public)
                  => (rq.status = 200 <=> (RqVerified /\ RqIdentity.id = c.user_id))

(***************************************************************************)
(* executeTransaction(callback) of config/database                         *)
(***************************************************************************)
\* the statements of the callback, in order
CallbackStatements == <<"DELETE FROM collection_gigs WHERE collection_id = $1",
                        "DELETE FROM collections WHERE id = $1">>

Callbacks ==
    {Callback(id, FALSE, 0) : id \in {1, 2}}
        \cup {Callback(id, TRUE, n) : id \in {1, 2}, n \in 0..Len(CallbackStatements)}

\* What a query on the client can do: succeed, be refused by the server with
\* the connection intact, or find the connection lost; on a lost connection
\* every query is rejected.
QueryOutcomes == IF tx.conn = "up" THEN {"ok", "error", "lost"} ELSE {"lost"}

\* the connection after a query with this outcome
ConnAfter(outcome) == IF outcome = "lost" THEN "lost" ELSE tx.conn

\* an await inside the try block rejected: control goes to the catch block
Caught(outcome, cause) ==
    [tx EXCEPT !.pc = "rollback", !.cause = cause, !.conn = ConnAfter(outcome)]

TxUnchanged ==
    UNCHANGED <<users, users_id_seq, gigs, collections, collection_gigs, now, reg, resp, rq, gd,
                lim, proc>>

\* executeTransaction(callback) is called
TxCall ==
    /\ tx.pc = "idle"
    /\ \E cb \in Callbacks :
          tx' = [TxIdle EXCEPT !.pc = "connect", !.callback = cb, !.held = tx.held]
    /\ TxUnchanged

\* const client = await pool.connect(), outside the try block
TxConnect ==
    /\ tx.pc = "connect"
    /\ \/ tx' = [tx EXCEPT !.pc = "begin", !.conn = "up", !.held = tx.held + 1]
       \/ tx' = [tx EXCEPT !.pc = "settled", !.cause = "connect", !.thrown = "connect"]
    /\ TxUnchanged

\* await client.query('BEGIN'), then the callback is called
TxBegin ==
    /\ tx.pc = "begin"
    /\ \E outcome \in QueryOutcomes :
          tx' = IF outcome = "ok"
                THEN [tx EXCEPT !.pc = "callback", !.calls = tx.calls + 1]
                ELSE Caught(outcome, "BEGIN")
    /\ TxUnchanged

\* the callback sends its next statement on the client
TxStatement ==
    /\ tx.pc = "callback"
    /\ tx.done < Len(CallbackStatements)
    /\ ~(tx.callback.raises /\ tx.callback.after = tx.done)
    /\ \E outcome \in QueryOutcomes :
          tx' = IF outcome = "ok"
                THEN [tx EXCEPT !.done = tx.done + 1]
                ELSE Caught(outcome, "statement")
    /\ TxUnchanged

\* the callback throws an error of its own
TxCallbackThrows ==
    /\ tx.pc = "callback"
    /\ tx.callback.raises
    /\ tx.callback.after = tx.done
    /\ tx' = Caught("ok", "callback")
    /\ TxUnchanged

\* the callback returns its result
TxCallbackReturns ==
    /\ tx.pc = "callback"
    /\ tx.done = Len(CallbackStatements)
    /\ ~(tx.callback.raises /\ tx.callback.after = tx.done)
    /\ tx' = [tx EXCEPT !.pc = "commit"]
    /\ TxUnchanged

\* await client.query('COMMIT'): the statements of the transaction take
\* effect together, or the query is rejected and none does
TxCommit ==
    /\ tx.pc = "commit"
    /\ \E outcome \in QueryOutcomes :
          IF outcome = "ok"
          THEN /\ tx' = [tx EXCEPT !.pc = "release", !.committed = TRUE]
               /\ collection_gigs' = {j \in collection_gigs : j.collection_id # tx.callback.id}
               /\ collections' = {c \in collections : c.id # tx.callback.id}
          ELSE /\ tx' = Caught(outcome, "COMMIT")
               /\ UNCHANGED <<collections, collection_gigs>>
    /\ UNCHANGED <<users, users_id_seq, gigs, now, reg, resp, rq, gd, lim, proc>>

\* The release written after the ROLLBACK in the catch block, with no
\* finally: a rejected ROLLBACK leaves the function before it.
TxRollbackBeforeRelease ==
    /\ tx.pc = "rollback"
    /\ \E outcome \in QueryOutcomes :
          tx' = [tx EXCEPT !.pc = IF outcome = "ok" THEN "release" ELSE "settled",
                           !.rollbacks = tx.rollbacks + 1, !.done = 0,
                           !.conn = ConnAfter(outcome),
                           !.thrown = IF outcome = "ok" THEN tx.cause ELSE "ROLLBACK"]
    /\ TxUnchanged

\* catch (error) { await client.query('ROLLBACK'); throw error; }: when the
\* ROLLBACK is rejected, its rejection leaves the catch block in place of
\* the error caught. The server discards the open transaction on ROLLBACK
\* and when the connection is lost.
TxRollback ==
    /\ tx.pc = "rollback"
    /\ \E outcome \in QueryOutcomes :
          tx' = [tx EXCEPT !.pc = "release", !.rollbacks = tx.rollbacks + 1, !.done = 0,
                           !.conn = ConnAfter(outcome),
                           !.thrown = IF outcome = "ok" THEN tx.cause ELSE "ROLLBACK"]
    /\ TxUnchanged

\* finally { client.release(); }
TxRelease ==
    /\ tx.pc = "release"
    /\ tx' = [tx EXCEPT !.pc = "settled", !.held = tx.held - 1, !.releases = tx.releases + 1]
    /\ TxUnchanged

\* the caller has the result or the error; the clients that were not
\* released stay checked out of the pool
TxReturn ==
    /\ tx.pc = "settled"
    /\ tx' = [TxIdle EXCEPT !.held = tx.held]
    /\ TxUnchanged

NextTx ==
    \/ TxCall
    \/ TxConnect
    \/ TxBegin
    \/ TxStatement
    \/ TxCallbackThrows
    \/ TxCallbackReturns
    \/ TxCommit
    \/ TxRollback
    \/ TxRelease
    \/ TxReturn

SpecTx == InitMw /\ [][NextTx]_vars

\* C18: the statements of a transaction take effect only in a COMMIT after
\* the callback returned; when the callback or COMMIT throws, ROLLBACK is
\* issued once, no statement takes effect, the error that was thrown reaches
\* the caller, and the callback ran once.
C18_TransactionAllOrNothing ==
    [][/\ (collections' # collections \/ collection_gigs' # collection_gigs)
            => /\ tx.pc = "commit"
               /\ tx.cause = ""
               /\ tx.done = Len(CallbackStatements)
               /\ tx'.committed
       /\ (tx'.pc = "settled" /\ tx.pc # "settled")
            => /\ tx'.calls <= 1
               /\ tx'.committed <=> (tx'.cause = "" /\ tx'.thrown = "")
               /\ tx'.cause \in {"statement", "callback", "COMMIT"}
                    => /\ tx'.rollbacks = 1
                       /\ ~tx'.committed
                       /\ tx'.thrown = tx'.cause]_vars

(***************************************************************************)
(* The rate limiters in front of register and login                        *)
(***************************************************************************)
\* max of each limiter
Max(l) ==
    CASE l = "limiter" -> LimiterMax
      [] l = "authLimiter" -> AuthLimiterMax
      [] OTHER -> LoginLimiterMax

\* a limiter that lets one request too many through
RateLimitedOffByOne(hits, max) == hits > max + 1

\* the request that made the count of its address hits is refused
RateLimited(hits, max) == hits > max

\* the request of ip is counted by the limiter
Counted(l, ip, counters) == [counters EXCEPT !.hits[l][ip] = counters.hits[l][ip] + 1, !.from = ip]

\* the request of ip reaches the handler behind the limiter
Reached(l, ip, counters) == [counters EXCEPT !.reached[l][ip] = counters.reached[l][ip] + 1]

TooManyRequests(route, l) ==
    Answer(route, 429,
           CASE l = "limiter" -> "Too many requests from this IP, please try again later."
             [] l = "authLimiter" -> "Too many authentication attempts, please try again later."
             [] OTHER -> "Too many login attempts, please try again later.",
           NoRow, NoToken, {}, NoToken)

\* the limiter that refuses the next request of ip on a route behind the
\* limiter l, "" when none does: first the limiter of /api, then l
RefusedBy(l, ip) ==
    IF RateLimited(lim.hits["limiter"][ip] + 1, Max("limiter")) THEN "limiter"
    ELSE IF RateLimited(lim.hits[l][ip] + 1, Max(l)) THEN l
    ELSE ""

\* the counters after that request
CountersAfter(l, ip) ==
    LET by == RefusedBy(l, ip)
        api == Counted("limiter", ip, lim)
    IN  IF by = "limiter" THEN api
        ELSE IF by = l THEN Counted(l, ip, api)
        ELSE Reached(l, ip, Counted(l, ip, api))

LimitCredentials == {Credentials(EmailB, PasswordOther), Credentials(EmailB, PasswordStrong)}
LimitRegisterBodies == {Credentials(EmailA, PasswordStrong), Credentials(EmailA, PasswordWeak)}

\* POST /api/auth/login from the address ip: limiter, loginLimiter,
\* loginValidation, handler
LimitedLogin(ip) ==
    /\ lim.hits["limiter"][ip] < MaxHits
    /\ lim' = CountersAfter("loginLimiter", ip)
    /\ IF RefusedBy("loginLimiter", ip) # ""
       THEN resp' = TooManyRequests("login", RefusedBy("loginLimiter", ip))
       ELSE \E cred \in LimitCredentials :
               resp' = [LoginResponse(cred.email, cred.password) EXCEPT !.req = cred]
    /\ UNCHANGED <<users, users_id_seq, gigs, collections, collection_gigs, now, reg, rq, gd, tx, proc>>

\* POST /api/auth/register from the address ip: limiter, authLimiter,
\* registerValidation, handler up to its first await
LimitedRegister(ip, c) ==
    /\ lim.hits["limiter"][ip] < MaxHits
    /\ reg[c].pc = "idle"
    /\ lim' = CountersAfter("authLimiter", ip)
    /\ IF RefusedBy("authLimiter", ip) # ""
       THEN /\ resp' = TooManyRequests("register", RefusedBy("authLimiter", ip))
            /\ reg' = reg
       ELSE \E body \in LimitRegisterBodies : RegisterBody(c, NameAl, body.email, body.password)
    /\ UNCHANGED <<users, users_id_seq, gigs, collections, collection_gigs, now, rq, gd, tx, proc>>

\* windowMs has passed: the stores of the limiters, which were created
\* together at start-up with the same window, are reset
WindowExpires ==
    /\ lim # LimIdle
    /\ lim' = LimIdle
    /\ UNCHANGED <<users, users_id_seq, gigs, collections, collection_gigs, now, reg, resp, rq,
                   gd, tx, proc>>

NextLimit ==
    \/ \E ip \in ClientAddresses : LimitedLogin(ip)
    \/ \E ip \in ClientAddresses : LimitedRegister(ip, 1)
    \/ \E c \in 1..MaxConn : RegisterSelect(c)
    \/ \E c \in 1..MaxConn : RegisterInsert(c)
    \/ WindowExpires

SpecLimit == Init /\ [][NextLimit]_vars

\* a request of an address was counted in this step
RequestFrom(ip) == lim'.from = ip /\ lim'.hits # lim.hits

\* C19: in one window an address reaches the login handler at most
\* LoginLimiterMax times and the register handler at most AuthLimiterMax
\* times, the first bound smaller than the second; a request beyond the limit
\* is answered 429 and nothing of the handler happens; a request of one
\* address leaves the counters of the others as they are.
C19_LoginThrottledHarderThanRegister ==
    [][/\ LoginLimiterMax < AuthLimiterMax
       /\ \A ip \in ClientAddresses :
             /\ lim'.reached["loginLimiter"][ip] <= LoginLimiterMax
             /\ lim'.reached["authLimiter"][ip] <= AuthLimiterMax
             /\ (RequestFrom(ip) /\ lim.hits["loginLimiter"][ip] >= LoginLimiterMax
                   /\ lim'.hits["loginLimiter"] # lim.hits["loginLimiter"])
                  => /\ resp' = [resp' EXCEPT !.route = "login", !.status = 429,
                                              !.user = NoRow, !.token = NoToken,
                                              !.details = {}, !.req = NoCredentials]
                     /\ lim'.reached = lim.reached
                     /\ reg' = reg /\ users' = users /\ users_id_seq' = users_id_seq
             /\ (RequestFrom(ip) /\ lim.hits["authLimiter"][ip] >= AuthLimiterMax
                   /\ lim'.hits["authLimiter"] # lim.hits["authLimiter"])
                  => /\ resp' = [resp' EXCEPT !.route = "register", !.status = 429,
                                              !.user = NoRow, !.token = NoToken,
                                              !.details = {}, !.req = NoCredentials]
                     /\ lim'.reached = lim.reached
                     /\ reg' = reg /\ users' = users /\ users_id_seq' = users_id_seq
             /\ RequestFrom(ip)
                  => \A other \in ClientAddresses \ {ip}, l \in Limiters :
                        /\ lim'.hits[l][other] = lim.hits[l][other]
                        /\ lim'.reached[l][other] = lim.reached[l][other]]_vars

\* the fourth login of an address in a window was answered 429 while the
\* other address had sent nothing
C19_Witness ==
    /\ resp.route = "login"
    /\ resp.status = 429
    /\ lim.hits["loginLimiter"][lim.from] = LoginLimiterMax + 1
    /\ lim.reached["loginLimiter"][lim.from] = LoginLimiterMax
    /\ \A other \in ClientAddresses \ {lim.from} : lim.hits["limiter"][other] = 0

(***************************************************************************)
(* The error-handling middleware of server.js                              *)
(***************************************************************************)
\* an error as the handler reads it: name, code, statusCode || status (0 when
\* neither is set) and message
Err(name, code, status, message) ==
    [name |-> name, code |-> code, status |-> status, message |-> message]

\* what the store throws on a unique, a foreign key and a not-null violation
UniqueViolation == Err("error", "23505", 0, "duplicate key value violates unique constraint")
ForeignKeyViolation == Err("error", "23503", 0, "violates foreign key constraint")
NotNullViolation == Err("error", "23502", 0, "violates not-null constraint")

\* app.use((err, req, res, next) => ...): the status and the body it answers
GlobalErrorHandler(err) ==
    IF err.name = "ValidationError"
    THEN [status |-> 400, error |-> "Validation failed",
          message |-> "Request validation failed", details |-> err.message]
    ELSE IF err.name \in {"UnauthorizedError", "JsonWebTokenError"}
    THEN [status |-> 401, error |-> "Authentication failed",
          message |-> "Invalid or expired token", details |-> ""]
    ELSE IF err.code = "23505"
    THEN [status |-> 409, error |-> "Duplicate entry",
          message |-> "A record with this information already exists", details |-> ""]
    ELSE IF err.code = "23503"
    THEN [status |-> 400, error |-> "Invalid reference",
          message |-> "Referenced record does not exist", details |-> ""]
    ELSE [status |-> IF err.status # 0 THEN err.status ELSE 500,
          error |-> "Internal server error",
          message |-> "Something went wrong on our end", details |-> ""]

\* C21: a constraint violation of the store is translated by the global
\* error handler, 23505 to 409, 23503 to 400 and any other to 500 with a
\* body that does not carry the error's message, and no route handler turns
\* one into another status: the register whose INSERT violates the unique
\* constraint on users.email answers what the global handler answers.
C21_ConstraintViolationsTranslatedGlobally ==
    [][/\ GlobalErrorHandler(UniqueViolation).status = 409
       /\ GlobalErrorHandler(ForeignKeyViolation).status = 400
       /\ GlobalErrorHandler(NotNullViolation).status = 500
       /\ \A field \in {"error", "message", "details"} :
             GlobalErrorHandler(NotNullViolation)[field] # NotNullViolation.message
       /\ \A c \in 1..MaxConn :
             (/\ reg[c].pc = "insert"
              /\ reg'[c].pc = "idle"
              /\ \E u \in users : u.email = reg[c].email)
                 => /\ resp'.status = GlobalErrorHandler(UniqueViolation).status
                    /\ resp'.error = GlobalErrorHandler(UniqueViolation).error]_vars

(***************************************************************************)
(* The process: startServer, the handlers of SIGINT and SIGTERM, and the   *)
(* auth router while the server listens                                    *)
(***************************************************************************)
InitProcess ==
    /\ users = {AdminUser}
    /\ users_id_seq = 1
    /\ gigs = {}
    /\ collections = {}
    /\ collection_gigs = {}
    /\ now = 0
    /\ reg = [c \in 1..MaxConn |-> RegIdle]
    /\ resp = RespNone
    /\ rq = RqIdle
    /\ gd = GuardIdle
    /\ tx = TxIdle
    /\ lim = LimIdle
    /\ proc \in {ProcBoot(secret) : secret \in {NoSecret, JWT_SECRET}}

ProcUnchanged ==
    UNCHANGED <<users, users_id_seq, gigs, collections, collection_gigs, now, reg, resp, rq, gd,
                tx, lim>>

\* testConnection up to its second await: pool.connect() gives a client, or
\* it throws and the catch returns false
TestConnect ==
    /\ proc.pc = "boot"
    /\ \E connected \in BOOLEAN :
          proc' = IF connected
                  THEN [proc EXCEPT !.pc = "probe", !.checkedOut = @ + 1]
                  ELSE [proc EXCEPT !.pc = "tested", !.ok = FALSE]
    /\ ProcUnchanged

\* the rest of testConnection: SELECT NOW() answers, the client is released
\* and true is returned, or the query throws and the catch returns false
TestQuery ==
    /\ proc.pc = "probe"
    /\ \E answered \in BOOLEAN :
          proc' = IF answered
                  THEN [proc EXCEPT !.pc = "tested", !.ok = TRUE, !.checkedOut = @ - 1]
                  ELSE [proc EXCEPT !.pc = "tested", !.ok = FALSE]
    /\ ProcUnchanged

\* startServer after testConnection: exit(1) when it returned false,
\* app.listen otherwise
StartListen ==
    /\ proc.pc = "tested"
    /\ proc' = IF proc.ok
               THEN [proc EXCEPT !.pc = "listening"]
               ELSE [proc EXCEPT !.pc = "exited", !.exit = "1"]
    /\ ProcUnchanged

\* the listeners of SIGINT and of SIGTERM in the order they were registered:
\* config/database is required by server.js before server.js registers its own
SignalHandlers == <<"database", "server">>

\* one listener run until it returns or suspends: the one of config/database
\* calls closePool, which starts pool.end() and awaits it; the one of
\* server.js calls process.exit(0)
RunListener(listener, p) ==
    IF listener = "database"
    THEN [p EXCEPT !.pool = IF @ = "open" THEN "ending" ELSE @]
    ELSE [p EXCEPT !.pc = "exited", !.exit = "0"]

\* process.emit(signal): the listeners run one after the other, and none runs
\* after process.exit
RECURSIVE Emit(_, _)
Emit(listeners, p) ==
    IF listeners = <<>> \/ p.pc = "exited" THEN p
    ELSE Emit(Tail(listeners), RunListener(Head(listeners), p))

\* SIGINT or SIGTERM is delivered
Signal ==
    /\ proc.pc # "exited"
    /\ \E signal \in {"SIGINT", "SIGTERM"} :
          proc' = Emit(SignalHandlers, [proc EXCEPT !.signal = signal])
    /\ ProcUnchanged

\* requests are served between app.listen and the exit
Listening == proc.pc = "listening"

NextProcess ==
    \/ TestConnect
    \/ TestQuery
    \/ StartListen
    \/ Signal
    \/ Listening /\ RegisterReceive(1)
    \/ Listening /\ RegisterSelect(1)
    \/ Listening /\ RegisterInsert(1)
    \/ Listening /\ Login

SpecProcess == InitProcess /\ [][NextProcess]_vars

\* C22: a process started without JWT_SECRET fails at startup and never
\* accepts a request, so that no register and no login is answered with a
\* failure because the token could not be signed.
C22_MissingSecretFatalAtStartup ==
    /\ proc.secret = NoSecret => proc.pc # "listening"
    /\ ~(JwtSignThrows(proc.secret) /\ resp.route \in {"register", "login"}
            /\ resp.status = 500)

\* C23: when the process exits on SIGINT or SIGTERM, pool.end() has
\* completed.
C23_PoolClosedBeforeExit ==
    (proc.pc = "exited" /\ proc.signal # "") => proc.pool = "closed"

\* C26: a register that answers with a status other than 201 leaves no row
\* of its own in users: the rows are those of before its answer.
C26_RegisterAllOrNothing ==
    [][(resp'.route = "register" /\ resp'.status # 201) => users' = users]_vars

\* C30: once testConnection has returned, with true or with false, the
\* client it took from the pool is back: no client is checked out.
C30_TestConnectionReleasesClient ==
    proc.pc \in {"tested", "listening"} => proc.checkedOut = 0

(***************************************************************************)
(* GET /api/gigs/<segment>: the routes of the gigs router are tried in the *)
(* order they were registered                                              *)
(***************************************************************************)
ListGigsRoute == "GET /api/gigs/"
GetGigRoute == "GET /api/gigs/:id"
GetMyGigsRoute == "GET /api/gigs/my"

\* the GET routes of the gigs router in registration order: the path pattern
\* (a literal segment, or ":" for a parameter) and whether authenticateToken
\* is mounted
GigsGetRoutes ==
    <<[route |-> ListGigsRoute, pattern |-> <<>>, auth |-> FALSE],
      [route |-> GetGigRoute, pattern |-> <<":">>, auth |-> FALSE],
      [route |-> GetMyGigsRoute, pattern |-> <<<<"m", "y">>>>, auth |-> TRUE]>>

\* a path matches a pattern segment by segment; a parameter matches any
\* segment that is not empty
PathMatches(pattern, path) ==
    /\ Len(pattern) = Len(path)
    /\ \A i \in DOMAIN pattern :
          IF pattern[i] = ":" THEN path[i] # <<>> ELSE path[i] = pattern[i]

\* the first route of the stack whose pattern matches the path
RECURSIVE Dispatch(_, _)
Dispatch(routes, path) ==
    IF routes = <<>> THEN [route |-> "none", pattern |-> <<>>, auth |-> FALSE]
    ELSE IF PathMatches(Head(routes).pattern, path) THEN Head(routes)
    ELSE Dispatch(Tail(routes), path)

\* the segments a client puts after /api/gigs/
GigSegments == {<<"m", "y">>, <<"1">>, <<"2">>, <<"0">>, <<"x">>}

\* GET /api/gigs/<segment> arrives and is dispatched
GigsArrive ==
    /\ rq.pc = "idle"
    /\ \E header \in ClientHeaders(now), segment \in GigSegments :
          LET hit == Dispatch(GigsGetRoutes, <<segment>>)
          IN  rq' = [RqIdle EXCEPT !.pc = IF hit.auth THEN "auth" ELSE "handler",
                                   !.route = hit.route, !.header = header, !.id = segment]
    /\ UNCHANGED <<users, users_id_seq, gigs, collections, collection_gigs, now, reg, resp, gd, tx, lim, proc>>

\* isNaN(str) for the segments above: Number(str) is a number when str is
\* made of digits
IsNaN(str) == \E i \in DOMAIN str : ~IsDigit(str[i])

\* router.get('/:id') of the gigs router: 400 when the id is empty or not
\* a number, otherwise it returns without a query and without an answer
GetGig ==
    /\ rq.pc = "handler"
    /\ rq.route = GetGigRoute
    /\ rq' = IF rq.id = <<>> \/ IsNaN(rq.id)
             THEN [rq EXCEPT !.pc = "responded", !.handler = TRUE, !.status = 400,
                             !.code = "Invalid gig ID", !.at = now]
             ELSE [rq EXCEPT !.pc = "returned", !.handler = TRUE, !.at = now]
    /\ UNCHANGED <<users, users_id_seq, gigs, collections, collection_gigs, now, reg, resp, gd, tx, lim, proc>>

NextGigs == Tick \/ GigsArrive \/ GetGig \/ Finish

SpecGigs == InitMw /\ [][NextGigs]_vars

\* C24: GET /api/gigs/my is dispatched to the private route, behind
\* authenticateToken, and never to GET /api/gigs/:id: without a token it is
\* answered 401.
C24_MyGigsBehindAuthenticateToken ==
    (rq.pc # "idle" /\ rq.id = <<"m", "y">>)
        => /\ rq.route = GetMyGigsRoute
           /\ (RqFinished /\ BearerToken(rq.header) = NoToken) => rq.status = 401

(***************************************************************************)
(* Claims about the answers of the route handlers                          *)
(***************************************************************************)
\* C25: a request that reached a route handler of the gigs or collections
\* router is answered once the handler has run: no handler returns leaving
\* the request without a response.
C25_HandledRequestIsAnswered ==
    rq.handler => (rq.pc = "responded" /\ rq.status # 0)

\* C27: the ownership guard fails closed and trusts no owner id of the
\* client: with an identity and no owner id in the body or the params it
\* does not call next, and its decision is the same whatever value the
\* request body carries in the owner field.
C27_GuardFailsClosed ==
    (gd.pc = "guarded" /\ gd.user # NoUser)
        => /\ (gd.bodyVal = JsUndefined /\ gd.paramVal = JsUndefined) => ~gd.out.next
           /\ \A bodyVal \in GuardBodyValues :
                 RequireOwnership(gd.user, bodyVal, gd.paramVal).next = gd.out.next

\* C28: login does not tell whether an email is registered: the answer to an
\* email and a password while no user has the email is, status and body,
\* the answer to the same email and password once a user with another
\* password has it.
C28_LoginHidesRegisteredEmails ==
    [][\A email \in RegisterEmails, password \in LoginPasswords :
          (/\ \A u \in users : u.email # NormalizeEmail(email)
           /\ \E u \in users' : u.email = NormalizeEmail(email)
           /\ \A u \in users' : u.email = NormalizeEmail(email) => u.password_hash.of # password)
              => LoginResponse(email, password)' = LoginResponse(email, password)]_vars

\* a login with the email of a user that register created and with another
\* password than theirs was answered 401
C28_Witness ==
    /\ resp.route = "login"
    /\ resp.status = 401
    /\ resp.error = "Invalid credentials"
    /\ resp.req.password # <<>>
    /\ \E u \in users :
          /\ u.id > 1
          /\ u.email = NormalizeEmail(resp.req.email)
          /\ u.password_hash.of # resp.req.password

\* C29: executeTransaction releases the client it took exactly once on
\* every path, the one where ROLLBACK throws included: when a call has
\* settled, and between calls, no client is checked out.
C29_TransactionReleasesClientOnce ==
    /\ tx.pc = "settled"
          => /\ tx.held = 0
             /\ tx.releases = IF tx.cause = "connect" THEN 0 ELSE 1
    /\ tx.pc = "idle" => tx.held = 0
    /\ tx.releases <= 1

\* a call settled after its ROLLBACK was rejected, the client released
C29_Witness ==
    /\ tx.pc = "settled"
    /\ tx.thrown = "ROLLBACK"
    /\ tx.rollbacks = 1
    /\ tx.releases = 1
    /\ tx.held = 0

====
